---- MODULE Spec2Model ----
(***************************************************************************)
(* Model of DudwallsClient (examples/python-example.py): a thin wrapper    *)
(* that turns method calls into HTTP requests against a remote service.    *)
(*                                                                         *)
(* Text that the code concatenates or strips (endpoint, names, paths, the  *)
(* bearer credential) is a sequence of one-character strings, so that      *)
(* rstrip and the f-strings are computed and not assumed.  Python values   *)
(* that cross the API (None, dict, list, int) are tagged records.          *)
(* The remote service is the environment: every request gets one outcome   *)
(* drawn from Outcomes.                                                    *)
(***************************************************************************)
EXTENDS Integers, Sequences, FiniteSets, TLC

\* ---------------------------------------------------------------- bounds
MaxEndpointLen == 2    \* longest endpoint string given to the constructor
MaxDocs == 2           \* longest document list given to insert_many
MaxBody == 1           \* longest JSON array the service answers with

SeqsUpTo(S, n) == UNION {[1..k -> S] : k \in 0..n}

\* ------------------------------------------------------- Python values
None == [type |-> "NoneType"]
Dict(d) == [type |-> "dict", value |-> d]
List(s) == [type |-> "list", value |-> s]
PyInt(n) == [type |-> "int", value |-> n]

\* ------------------------------------------------------------- inputs
EndpointChars == {"h", "/"}
Endpoints == SeqsUpTo(EndpointChars, MaxEndpointLen)
DefaultTimeout == 10
\* the (api_key, timeout) pairs clients are constructed with
Credentials == {[api_key |-> <<"k">>, timeout |-> DefaultTimeout],
                [api_key |-> <<"s", "k">>, timeout |-> 30]}
DbNames == {<<"t">>, <<"p", "y">>}
CollNames == {<<"c">>, <<"u">>}
DocIds == {<<"1">>, <<"2">>}
Docs == {Dict([a |-> 1]), Dict([a |-> 1, id |-> 7])}
\* documents as the service lists them, with the identifier it assigned
StoredDocs == {Dict([a |-> 1, id |-> 7])}
JsonBodies == {None} \cup Docs \cup {List(s) : s \in SeqsUpTo(StoredDocs, MaxBody)}

\* What one HTTP exchange can do.  "ok": a 2xx answer whose body decodes to
\* body.  ConnectionError, Timeout: requests.request raises.  HTTPError:
\* raise_for_status raises on a non-2xx status.  A 2xx answer whose body is
\* not JSON makes response.json() raise requests' JSONDecodeError (a
\* RequestException, requests >= 2.27) or a plain ValueError (older
\* releases); both are outcomes an installation can produce.
FailureKinds == {"ConnectionError", "Timeout", "HTTPError", "JSONDecodeError", "ValueError"}
Outcomes == {[kind |-> "ok", body |-> b] : b \in JsonBodies}
              \cup {[kind |-> k, body |-> None] : k \in FailureKinds}

IsRequestException(kind) == kind \in {"ConnectionError", "Timeout", "HTTPError", "JSONDecodeError"}
IsException(kind) == kind \in FailureKinds \cup {"Exception", "TypeError"}

\* ------------------------------------------------------ literal strings
S_api_dudwalls == <<"/", "a", "p", "i", "/", "d", "u", "d", "w", "a", "l", "l", "s">>
S_api_health == <<"/", "a", "p", "i", "/", "h", "e", "a", "l", "t", "h">>
S_Bearer == <<"B", "e", "a", "r", "e", "r", " ">>
Slash == <<"/">>

\* rstrip that drops one trailing ch at most
rstrip_once(s, ch) ==
  IF s # <<>> /\ s[Len(s)] = ch THEN SubSeq(s, 1, Len(s) - 1) ELSE s

\* str.rstrip(ch): drop every trailing ch
RECURSIVE rstrip(_, _)
rstrip(s, ch) ==
  IF s = <<>> THEN s
  ELSE IF s[Len(s)] = ch THEN rstrip(SubSeq(s, 1, Len(s) - 1), ch)
  ELSE s

\* ------------------------------------------------------ call outcomes
Return(v) == [raised |-> FALSE, kind |-> "return", value |-> v, message |-> <<>>]
Raise(kind, msg) == [raised |-> TRUE, kind |-> kind, value |-> None, message |-> msg]
Effect(reqs, result) == [sent |-> reqs, ret |-> result, printed |-> <<>>]
NoHeaders == [h \in {} |-> ""]

\* ------------------------------------------------------------ __init__
DudwallsClient(endpoint, api_key, timeout) ==
  LET ep == rstrip(endpoint, "/")
  IN [endpoint |-> ep,
      api_key |-> api_key,
      timeout |-> timeout,
      base_url |-> ep \o S_api_dudwalls,
      headers |-> ("Authorization" :> (S_Bearer \o api_key))
                    @@ ("Content-Type" :> "application/json")
                    @@ ("User-Agent" :> "Dudwalls-Python-SDK/1.0.0")]

\* _request that tries a second time when the first exchange fails
_request_retry(self, method, path, data, o) ==
  LET req == [method |-> method, url |-> self.base_url \o path,
              headers |-> self.headers, json |-> data, timeout |-> self.timeout]
  IN IF o.kind = "ok" THEN Effect(<<req>>, Return(o.body))
     ELSE Effect(<<req, req>>,
                 IF IsRequestException(o.kind)
                 THEN Raise("Exception", <<"Dudwalls API error: ", o.kind>>)
                 ELSE Raise(o.kind, <<o.kind>>))

\* ------------------------------------------------------------ _request
_request(self, method, path, data, o) ==
  LET req == [method |-> method, url |-> self.base_url \o path,
              headers |-> self.headers, json |-> data, timeout |-> self.timeout]
  IN Effect(<<req>>,
            IF o.kind = "ok" THEN Return(o.body)
            ELSE IF IsRequestException(o.kind)
                 THEN Raise("Exception", <<"Dudwalls API error: ", o.kind>>)
                 ELSE Raise(o.kind, <<o.kind>>))

\* ---------------------------------------------------------------- ping
ping(self, o) ==
  LET req == [method |-> "GET", url |-> self.endpoint \o S_api_health,
              headers |-> NoHeaders, json |-> None, timeout |-> self.timeout]
  IN Effect(<<req>>,
            IF o.kind = "ok" THEN Return(o.body) ELSE Raise(o.kind, <<o.kind>>))

get_databases(self, o) == _request(self, "GET", Slash, None, o)

create_database(self, name, o) ==
  _request(self, "POST", Slash, Dict([name |-> name]), o)

delete_database(self, name, o) == _request(self, "DELETE", Slash \o name, None, o)

get_collections(self, database, o) == _request(self, "GET", Slash \o database, None, o)

create_collection(self, database, collection, o) ==
  _request(self, "POST", Slash \o database, Dict([name |-> collection]), o)

\* delete_collection that leaves the collection out of the path
delete_collection_dbpath(self, database, collection, o) ==
  _request(self, "DELETE", Slash \o database, None, o)

delete_collection(self, database, collection, o) ==
  _request(self, "DELETE", Slash \o database \o Slash \o collection, None, o)

find(self, database, collection, o) ==
  _request(self, "GET", Slash \o database \o Slash \o collection, None, o)

\* find_one without its try/except
find_one_nocatch(self, database, collection, doc_id, o) ==
  _request(self, "GET",
           Slash \o database \o Slash \o collection \o Slash \o doc_id, None, o)

find_one(self, database, collection, doc_id, o) ==
  LET r == _request(self, "GET",
                    Slash \o database \o Slash \o collection \o Slash \o doc_id, None, o)
  IN IF r.ret.raised /\ IsException(r.ret.kind) THEN Effect(r.sent, Return(None)) ELSE r

insert_one(self, database, collection, document, o) ==
  _request(self, "POST", Slash \o database \o Slash \o collection, document, o)

\* the loop with the try/except around the whole loop: the first failure ends it
RECURSIVE insert_many_loop_abort(_, _, _, _, _, _, _)
insert_many_loop_abort(self, database, collection, documents, outs, i, acc) ==
  IF i > Len(documents) THEN acc
  ELSE LET r == insert_one(self, database, collection, documents[i], outs[i])
       IN IF ~r.ret.raised
          THEN insert_many_loop_abort(self, database, collection, documents, outs, i + 1,
                 [acc EXCEPT !.sent = @ \o r.sent,
                             !.results = Append(@, r.ret.value)])
          ELSE [acc EXCEPT !.sent = @ \o r.sent,
                           !.printed = Append(@, <<"Failed to insert document: ">> \o r.ret.message)]

\* the for loop of insert_many from document i on; acc is what the loop has
\* sent, collected and printed so far
RECURSIVE insert_many_loop(_, _, _, _, _, _, _)
insert_many_loop(self, database, collection, documents, outs, i, acc) ==
  IF i > Len(documents) THEN acc
  ELSE LET r == insert_one(self, database, collection, documents[i], outs[i])
       IN IF ~r.ret.raised
          THEN insert_many_loop(self, database, collection, documents, outs, i + 1,
                 [acc EXCEPT !.sent = @ \o r.sent,
                             !.results = Append(@, r.ret.value)])
          ELSE IF IsException(r.ret.kind)
          THEN insert_many_loop(self, database, collection, documents, outs, i + 1,
                 [acc EXCEPT !.sent = @ \o r.sent,
                             !.printed = Append(@, <<"Failed to insert document: ">> \o r.ret.message)])
          ELSE [acc EXCEPT !.sent = @ \o r.sent, !.uncaught = r.ret]

insert_many(self, database, collection, documents, outs) ==
  LET acc == insert_many_loop(self, database, collection, documents, outs, 1,
               [sent |-> <<>>, results |-> <<>>, printed |-> <<>>, uncaught |-> Return(None)])
  IN [sent |-> acc.sent,
      ret |-> IF acc.uncaught.raised THEN acc.uncaught ELSE Return(List(acc.results)),
      printed |-> acc.printed]

\* update_one sent with POST
update_one_post(self, database, collection, doc_id, update, o) ==
  _request(self, "POST",
           Slash \o database \o Slash \o collection \o Slash \o doc_id, update, o)

update_one(self, database, collection, doc_id, update, o) ==
  _request(self, "PUT",
           Slash \o database \o Slash \o collection \o Slash \o doc_id, update, o)

delete_one(self, database, collection, doc_id, o) ==
  _request(self, "DELETE",
           Slash \o database \o Slash \o collection \o Slash \o doc_id, None, o)

\* Python's len(): defined on list and dict, TypeError on None
HasLen(v) == v.type \in {"list", "dict"}
len(v) == IF v.type = "list" THEN Len(v.value) ELSE Cardinality(DOMAIN v.value)

\* count that reports the last index instead of the length
count_lastindex(self, database, collection, o) ==
  LET r == find(self, database, collection, o)
  IN IF r.ret.raised THEN r
     ELSE IF HasLen(r.ret.value) THEN Effect(r.sent, Return(PyInt(len(r.ret.value) - 1)))
     ELSE Effect(r.sent, Raise("TypeError", <<"TypeError">>))

count(self, database, collection, o) ==
  LET r == find(self, database, collection, o)
  IN IF r.ret.raised THEN r
     ELSE IF HasLen(r.ret.value) THEN Effect(r.sent, Return(PyInt(len(r.ret.value))))
     ELSE Effect(r.sent, Raise("TypeError", <<"TypeError">>))

\* ---------------------------------------------------------------- state
VARIABLES
  ctor,      \* the arguments the constructor was called with
  client,    \* the DudwallsClient instance: endpoint, api_key, timeout, base_url, headers
  pc,        \* the caller: "idle" between calls, "done" holding a finished call
  call,      \* the finished call: operation, arguments, outcome of each request
  sent,      \* the HTTP requests that call issued, in order
  ret,       \* what that call returned or raised
  printed    \* what that call printed

vars == <<ctor, client, pc, call, sent, ret, printed>>

NoStr == <<>>
NoCall == [op |-> "none", database |-> NoStr, collection |-> NoStr, doc_id |-> NoStr,
           data |-> None, documents |-> <<>>, outcomes |-> <<>>]
CallOf(op, database, collection, doc_id, data, documents, outcomes) ==
  [op |-> op, database |-> database, collection |-> collection, doc_id |-> doc_id,
   data |-> data, documents |-> documents, outcomes |-> outcomes]

Init ==
  /\ \E e \in Endpoints, c \in Credentials :
       /\ ctor = [endpoint |-> e, api_key |-> c.api_key, timeout |-> c.timeout]
       /\ client = DudwallsClient(e, c.api_key, c.timeout)
  /\ pc = "idle"
  /\ call = NoCall
  /\ sent = <<>>
  /\ ret = Return(None)
  /\ printed = <<>>

\* a method ran to its return or raise; no method assigns to self
Finish(c, e) ==
  /\ pc' = "done"
  /\ call' = c
  /\ sent' = e.sent
  /\ ret' = e.ret
  /\ printed' = e.printed
  /\ UNCHANGED <<ctor, client>>

\* ping that points base_url at the health path and leaves it there
PingRebase ==
  /\ pc = "idle"
  /\ \E o \in Outcomes :
       /\ pc' = "done"
       /\ call' = CallOf("ping", NoStr, NoStr, NoStr, None, <<>>, <<o>>)
       /\ sent' = ping(client, o).sent
       /\ ret' = ping(client, o).ret
       /\ printed' = <<>>
       /\ client' = [client EXCEPT !.base_url = client.endpoint \o S_api_health]
       /\ UNCHANGED ctor

Ping ==
  /\ pc = "idle"
  /\ \E o \in Outcomes :
       Finish(CallOf("ping", NoStr, NoStr, NoStr, None, <<>>, <<o>>), ping(client, o))

GetDatabases ==
  /\ pc = "idle"
  /\ \E o \in Outcomes :
       Finish(CallOf("get_databases", NoStr, NoStr, NoStr, None, <<>>, <<o>>),
              get_databases(client, o))

CreateDatabase ==
  /\ pc = "idle"
  /\ \E name \in DbNames, o \in Outcomes :
       Finish(CallOf("create_database", name, NoStr, NoStr, None, <<>>, <<o>>),
              create_database(client, name, o))

DeleteDatabase ==
  /\ pc = "idle"
  /\ \E name \in DbNames, o \in Outcomes :
       Finish(CallOf("delete_database", name, NoStr, NoStr, None, <<>>, <<o>>),
              delete_database(client, name, o))

GetCollections ==
  /\ pc = "idle"
  /\ \E db \in DbNames, o \in Outcomes :
       Finish(CallOf("get_collections", db, NoStr, NoStr, None, <<>>, <<o>>),
              get_collections(client, db, o))

CreateCollection ==
  /\ pc = "idle"
  /\ \E db \in DbNames, c \in CollNames, o \in Outcomes :
       Finish(CallOf("create_collection", db, c, NoStr, None, <<>>, <<o>>),
              create_collection(client, db, c, o))

DeleteCollection ==
  /\ pc = "idle"
  /\ \E db \in DbNames, c \in CollNames, o \in Outcomes :
       Finish(CallOf("delete_collection", db, c, NoStr, None, <<>>, <<o>>),
              delete_collection(client, db, c, o))

Find ==
  /\ pc = "idle"
  /\ \E db \in DbNames, c \in CollNames, o \in Outcomes :
       Finish(CallOf("find", db, c, NoStr, None, <<>>, <<o>>), find(client, db, c, o))

FindOne ==
  /\ pc = "idle"
  /\ \E db \in DbNames, c \in CollNames, id \in DocIds, o \in Outcomes :
       Finish(CallOf("find_one", db, c, id, None, <<>>, <<o>>),
              find_one(client, db, c, id, o))

InsertOne ==
  /\ pc = "idle"
  /\ \E db \in DbNames, c \in CollNames, d \in Docs, o \in Outcomes :
       Finish(CallOf("insert_one", db, c, NoStr, d, <<>>, <<o>>),
              insert_one(client, db, c, d, o))

InsertMany ==
  /\ pc = "idle"
  /\ \E db \in DbNames, c \in CollNames, ds \in SeqsUpTo(Docs, MaxDocs) :
       \E outs \in [1..Len(ds) -> Outcomes] :
         Finish(CallOf("insert_many", db, c, NoStr, None, ds, outs),
                insert_many(client, db, c, ds, outs))

UpdateOne ==
  /\ pc = "idle"
  /\ \E db \in DbNames, c \in CollNames, id \in DocIds, u \in Docs, o \in Outcomes :
       Finish(CallOf("update_one", db, c, id, u, <<>>, <<o>>),
              update_one(client, db, c, id, u, o))

DeleteOne ==
  /\ pc = "idle"
  /\ \E db \in DbNames, c \in CollNames, id \in DocIds, o \in Outcomes :
       Finish(CallOf("delete_one", db, c, id, None, <<>>, <<o>>),
              delete_one(client, db, c, id, o))

Count ==
  /\ pc = "idle"
  /\ \E db \in DbNames, c \in CollNames, o \in Outcomes :
       Finish(CallOf("count", db, c, NoStr, None, <<>>, <<o>>), count(client, db, c, o))

\* the caller takes the result (or handles the failure) and goes on to its
\* next call
CallerContinue ==
  /\ pc = "done"
  /\ pc' = "idle"
  /\ call' = NoCall
  /\ sent' = <<>>
  /\ ret' = Return(None)
  /\ printed' = <<>>
  /\ UNCHANGED <<ctor, client>>

Next ==
  \/ Ping
  \/ GetDatabases
  \/ CreateDatabase
  \/ DeleteDatabase
  \/ GetCollections
  \/ CreateCollection
  \/ DeleteCollection
  \/ Find
  \/ FindOne
  \/ InsertOne
  \/ InsertMany
  \/ UpdateOne
  \/ DeleteOne
  \/ Count
  \/ CallerContinue

Spec == Init /\ [][Next]_vars

TypeOK ==
  /\ pc \in {"idle", "done"}
  /\ ret.raised \in BOOLEAN
  /\ pc = "idle" => sent = <<>>

\* ------------------------------------------------- helpers of the claims
Done(op) == pc = "done" /\ call.op = op
Failed(o) == o.kind # "ok"
Urls(reqs) == [i \in DOMAIN reqs |-> reqs[i].url]

\* the documented URLs, spelled from the endpoint the client holds
ApiRoot == client.endpoint \o <<"/", "a", "p", "i", "/", "d", "u", "d", "w", "a", "l", "l", "s", "/">>
HealthUrl == client.endpoint \o <<"/", "a", "p", "i", "/", "h", "e", "a", "l", "t", "h">>
DbUrl == ApiRoot \o call.database
CollUrl == ApiRoot \o call.database \o <<"/">> \o call.collection
DocUrl == ApiRoot \o call.database \o <<"/">> \o call.collection \o <<"/">> \o call.doc_id

\* the finished call c, made on the client self
Invoke(self, c) ==
  CASE c.op = "ping" -> ping(self, c.outcomes[1])
    [] c.op = "get_databases" -> get_databases(self, c.outcomes[1])
    [] c.op = "create_database" -> create_database(self, c.database, c.outcomes[1])
    [] c.op = "delete_database" -> delete_database(self, c.database, c.outcomes[1])
    [] c.op = "get_collections" -> get_collections(self, c.database, c.outcomes[1])
    [] c.op = "create_collection" -> create_collection(self, c.database, c.collection, c.outcomes[1])
    [] c.op = "delete_collection" -> delete_collection(self, c.database, c.collection, c.outcomes[1])
    [] c.op = "find" -> find(self, c.database, c.collection, c.outcomes[1])
    [] c.op = "find_one" -> find_one(self, c.database, c.collection, c.doc_id, c.outcomes[1])
    [] c.op = "insert_one" -> insert_one(self, c.database, c.collection, c.data, c.outcomes[1])
    [] c.op = "insert_many" -> insert_many(self, c.database, c.collection, c.documents, c.outcomes)
    [] c.op = "update_one" -> update_one(self, c.database, c.collection, c.doc_id, c.data, c.outcomes[1])
    [] c.op = "delete_one" -> delete_one(self, c.database, c.collection, c.doc_id, c.outcomes[1])
    [] c.op = "count" -> count(self, c.database, c.collection, c.outcomes[1])

\* ------------------------------------------------------------------- C1
OkIdx == {i \in DOMAIN call.outcomes : ~Failed(call.outcomes[i])}
FailIdx == DOMAIN call.outcomes \ OkIdx

\* C1: insert_many issues exactly one POST per document, in input order,
\* whatever fails; it never raises; it returns the answers of exactly the
\* successful inserts in input order, so when only the k-th insert fails the
\* result has length N-1 and is the answers without the k-th.
C1_InsertManyCollectsSuccesses ==
  Done("insert_many") =>
    LET N == Len(call.documents)
        res == ret.value.value
    IN /\ Len(sent) = N
       /\ \A i \in 1..N :
            /\ sent[i].method = "POST"
            /\ sent[i].url = CollUrl
            /\ sent[i].json = call.documents[i]
       /\ ~ret.raised
       /\ ret.value.type = "list"
       /\ Len(res) = Cardinality(OkIdx)
       /\ \A i \in OkIdx :
            res[Cardinality({m \in OkIdx : m < i}) + 1] = call.outcomes[i].body
       /\ \A k \in 1..N :
            FailIdx = {k} =>
              /\ Len(res) = N - 1
              /\ \A j \in 1..(N - 1) :
                   res[j] = call.outcomes[IF j < k THEN j ELSE j + 1].body

C1_Witness ==
  /\ Done("insert_many")
  /\ Len(call.documents) >= 2
  /\ FailIdx = {1}
  /\ Len(sent) = Len(call.documents)
  /\ Len(ret.value.value) = Len(call.documents) - 1

\* ------------------------------------------------------------------- C2
\* C2: find_one never raises: it issues one GET, returns None for every
\* failed outcome of it (transport failure, timeout, non-success status,
\* undecodable body) and the decoded body when the request succeeds.
C2_FindOneNeverRaises ==
  Done("find_one") =>
    /\ Len(sent) = 1
    /\ sent[1].method = "GET"
    /\ sent[1].url = DocUrl
    /\ ~ret.raised
    /\ Failed(call.outcomes[1]) => ret.value = None
    /\ ~Failed(call.outcomes[1]) => ret.value = call.outcomes[1].body

C2_Witness ==
  /\ Done("find_one")
  /\ call.outcomes[1].kind = "HTTPError"
  /\ ~ret.raised
  /\ ret.value = None

\* ------------------------------------------------------------------- C3
\* C3: count issues the one GET that find issues for the same database and
\* collection, returns the length of the sequence that request yields, and
\* raises when that request fails.
C3_CountIsLenOfFind ==
  Done("count") =>
    LET o == call.outcomes[1]
        f == find(client, call.database, call.collection, o)
    IN /\ sent = f.sent
       /\ Len(sent) = 1
       /\ sent[1].method = "GET"
       /\ sent[1].url = CollUrl
       /\ (~f.ret.raised /\ f.ret.value.type = "list") =>
            (~ret.raised /\ ret.value = PyInt(Len(f.ret.value.value)))
       /\ Failed(o) => (ret.raised /\ ret = f.ret)

C3_Witness ==
  /\ Done("count")
  /\ call.outcomes[1].kind = "ok"
  /\ call.outcomes[1].body.type = "list"
  /\ Len(call.outcomes[1].body.value) >= 1
  /\ ret.value = PyInt(Len(call.outcomes[1].body.value))

\* ------------------------------------------------------------------- C4
\* the client built from the same arguments with a slash added to the endpoint
SlashTwin == DudwallsClient(ctor.endpoint \o <<"/">>, ctor.api_key, ctor.timeout)

\* C4: a client built with endpoint E followed by a slash issues, for every
\* operation and arguments (ping included), requests to the same URLs as the
\* client built with E.
C4_TrailingSlashSameUrls ==
  pc = "done" =>
    /\ Len(sent) >= 1 => Len(Invoke(SlashTwin, call).sent) >= 1
    /\ Urls(Invoke(SlashTwin, call).sent) = Urls(sent)

C4_Witness ==
  /\ Done("ping")
  /\ ctor.endpoint = <<"h", "/">>
  /\ sent[1].url = <<"h">> \o S_api_health
  /\ Invoke(SlashTwin, call).sent[1].url = sent[1].url

\* ------------------------------------------------------------------- C5
SingleNonDeleteOps ==
  {"ping", "get_databases", "create_database", "get_collections", "create_collection",
   "find", "insert_one", "find_one", "update_one"}

DocumentedMethod ==
  CASE call.op \in {"ping", "get_databases", "get_collections", "find", "find_one"} -> "GET"
    [] call.op \in {"create_database", "create_collection", "insert_one"} -> "POST"
    [] call.op = "update_one" -> "PUT"

DocumentedUrl ==
  CASE call.op = "ping" -> HealthUrl
    [] call.op \in {"get_databases", "create_database"} -> ApiRoot
    [] call.op \in {"get_collections", "create_collection"} -> DbUrl
    [] call.op \in {"find", "insert_one"} -> CollUrl
    [] call.op \in {"find_one", "update_one"} -> DocUrl

\* C5: every call of a non-delete single-request operation issues exactly
\* one request, with the documented method and URL.
C5_DocumentedMethodAndPath ==
  (pc = "done" /\ call.op \in SingleNonDeleteOps) =>
    /\ Len(sent) = 1
    /\ sent[1].method = DocumentedMethod
    /\ sent[1].url = DocumentedUrl

C5_Witness ==
  /\ Done("update_one")
  /\ Len(sent) = 1
  /\ sent[1].method = "PUT"
  /\ sent[1].url = DocUrl

\* ------------------------------------------------------------------- C6
\* C6 as stated: delete_database issues DELETE to the API root,
\* delete_collection to the database URL, delete_one to the document URL, and
\* nothing issues DELETE to a collection URL.
C6_Original ==
  pc = "done" =>
    /\ call.op = "delete_database" => (sent[1].method = "DELETE" /\ sent[1].url = ApiRoot)
    /\ call.op = "delete_collection" => (sent[1].method = "DELETE" /\ sent[1].url = DbUrl)
    /\ call.op = "delete_one" => (sent[1].method = "DELETE" /\ sent[1].url = DocUrl)
    /\ \A i \in DOMAIN sent :
         sent[i].method = "DELETE" =>
           sent[i].url \notin {ApiRoot \o d \o <<"/">> \o c : d \in DbNames, c \in CollNames}

\* C6 (amended): each delete operation issues exactly one DELETE, to the URL
\* that names what it deletes: delete_database(name) to the database URL,
\* delete_collection(db, collection) to the collection URL, delete_one to
\* the document URL; no other operation issues a DELETE.
C6_DeletePaths ==
  pc = "done" =>
    /\ call.op = "delete_database" =>
         (Len(sent) = 1 /\ sent[1].method = "DELETE" /\ sent[1].url = DbUrl)
    /\ call.op = "delete_collection" =>
         (Len(sent) = 1 /\ sent[1].method = "DELETE" /\ sent[1].url = CollUrl)
    /\ call.op = "delete_one" =>
         (Len(sent) = 1 /\ sent[1].method = "DELETE" /\ sent[1].url = DocUrl)
    /\ \A i \in DOMAIN sent :
         sent[i].method = "DELETE" =>
           call.op \in {"delete_database", "delete_collection", "delete_one"}

C6_Witness ==
  /\ Done("delete_collection")
  /\ sent[1].method = "DELETE"
  /\ sent[1].url = CollUrl
  /\ sent[1].url # DbUrl

\* ------------------------------------------------------------------- C7
\* C7: every request any operation issues, ping's included, carries the
\* Authorization header 'Bearer <api_key>' of the constructor's credential
\* and the Content-Type header application/json.
C7_EveryRequestCarriesHeaders ==
  \A i \in DOMAIN sent :
    /\ "Authorization" \in DOMAIN sent[i].headers
    /\ sent[i].headers["Authorization"] = <<"B", "e", "a", "r", "e", "r", " ">> \o ctor.api_key
    /\ "Content-Type" \in DOMAIN sent[i].headers
    /\ sent[i].headers["Content-Type"] = "application/json"

\* ------------------------------------------------------------------- C8
RaisingOps ==
  {"ping", "get_databases", "create_database", "delete_database", "get_collections",
   "create_collection", "delete_collection", "find", "insert_one", "update_one",
   "delete_one", "count"}

\* C8: when the request of an operation other than find_one and insert_many
\* fails, the operation raises to its caller, returns no value, and has
\* issued that one request only.
C8_FailureRaisesNoRetry ==
  (pc = "done" /\ call.op \in RaisingOps /\ Failed(call.outcomes[1])) =>
    /\ ret.raised
    /\ ret.value = None
    /\ Len(sent) = 1

C8_Witness ==
  /\ Done("ping")
  /\ call.outcomes[1].kind = "HTTPError"
  /\ ret.raised
  /\ Len(sent) = 1

\* ------------------------------------------------------------------- C9
\* C9: every failure an operation raises because of a transport failure or
\* a non-success status, ping's included, is of the one generic kind that
\* carries the 'Dudwalls API error: ...' message.
C9_OneGenericFailureKind ==
  (pc = "done" /\ ret.raised
     /\ call.outcomes[1].kind \in {"ConnectionError", "Timeout", "HTTPError"}) =>
    /\ ret.kind = "Exception"
    /\ Len(ret.message) >= 1
    /\ ret.message[1] = "Dudwalls API error: "

\* ------------------------------------------------------------------ C10
\* C10: the configuration never changes after construction: after every
\* call, successful or failing, endpoint, api_key, timeout, base_url and
\* headers are what the constructor set, and the requests a call issues are
\* those a freshly constructed client issues for the same call.
C10_ConfigurationImmutable ==
  LET fresh == DudwallsClient(ctor.endpoint, ctor.api_key, ctor.timeout)
  IN /\ client = fresh
     /\ client.endpoint = rstrip(ctor.endpoint, "/")
     /\ client.api_key = ctor.api_key
     /\ client.timeout = ctor.timeout
     /\ pc = "done" => sent = Invoke(fresh, call).sent

C10_Witness ==
  /\ pc = "done"
  /\ ret.raised
  /\ Len(sent) = 1
  /\ client = DudwallsClient(ctor.endpoint, ctor.api_key, ctor.timeout)

====
